---- MODULE Spec2Model ----
(***************************************************************************)
(* Model of renanrcp16/qr-generator.                                       *)
(*                                                                         *)
(*   src/src/app/api/qrcode/route.ts   POST /api/qrcode: bodySchema,       *)
(*                                     zodErrorToResponse, POST            *)
(*   src/src/app/page.tsx              Page: parseSizeInput, clamp, the    *)
(*                                     size field handlers, generate       *)
(*                                                                         *)
(* Strings are run-length encoded: a string is a sequence of runs          *)
(* [c |-> character, n |-> repeat count], canonical when every n >= 1 and  *)
(* adjacent runs carry different characters.  <<[c |-> "a", n |-> 1],      *)
(* [c |-> ":", n |-> 1], [c |-> "a", n |-> 2329]>> is the 2331-character   *)
(* string "a:aaa...a".  The encoding keeps the long links that decide the  *)
(* QR symbol's version within reach of the model checker.                  *)
(*                                                                         *)
(* route.ts calls two packages that are not part of the repository: zod    *)
(* (v4 API: z.coerce.number("..."), { error: fn }) and qrcode.  What the   *)
(* handler does with their results is modelled from route.ts; what the     *)
(* packages compute is modelled from their published implementation, named *)
(* at each definition.                                                     *)
(***************************************************************************)
EXTENDS Integers, Sequences, FiniteSets, TLC

VARIABLES
    \* ---- POST /api/qrcode, one entry per handler invocation ----
    pc,          \* position of each invocation in POST
    request,     \* what req.json() of the invocation is given (route.ts:67)
    body,        \* `body` (route.ts:67)
    parsed,      \* `parsed` (route.ts:70)
    responses,   \* the responses the invocation has returned, in order
    qrCalls,     \* how many times the invocation called QRCode.toDataURL
    \* ---- Page (page.tsx) ----
    link,        \* useState("")            page.tsx:57
    size,        \* useState<number>(320)   page.tsx:63
    sizeText,    \* useState("320")         page.tsx:70
    dataUrl,     \* useState(null)          page.tsx:76
    loading,     \* useState(false)         page.tsx:81
    error,       \* useState(null)          page.tsx:82
    inflight,    \* the request bodies of the fetches of generate() that
                 \* have not settled, oldest first
    outcome      \* how the latest fetch of generate() stands: "none" before
                 \* the first, "pending", or how it settled

apiVars  == <<pc, request, body, parsed, responses, qrCalls>>
pageVars == <<link, size, sizeText, dataUrl, loading, error, inflight, outcome>>
vars     == <<pc, request, body, parsed, responses, qrCalls,
              link, size, sizeText, dataUrl, loading, error, inflight, outcome>>

----------------------------------------------------------------------------
(* Bounds of the model *)

\* Longest link, in runs, that a request carries.
MaxRuns == 3

\* Longest text, in runs, that the user types into the size field.
MaxTypedRuns == 2

\* Handler invocations that run interleaved in SpecConc.
NumReqs == 2

----------------------------------------------------------------------------
(* Program constants *)

\* page.tsx:9-10
MIN_SIZE == 128
MAX_SIZE == 1024
\* page.tsx:63 and page.tsx:205
InitialSize == 320
FallbackSize == 320
\* route.ts:50-51, the bounds of bodySchema.size
SchemaMin == 128
SchemaMax == 1024
\* route.ts:88-89, the options POST passes to QRCode.toDataURL
DefaultWidth == 320
Margin == 2

----------------------------------------------------------------------------
(* JavaScript values.  Every value is a record tagged with its type, so that
   values of different types can be compared. *)

Null == [t |-> "null"]
Undefined == [t |-> "undefined"]          \* also: an absent property
JStr(s) == [t |-> "string", s |-> s]
\* A finite number, held in halves: JNum(7) is 3.5, JNum(256) is 128.
JNum(h) == [t |-> "number", h |-> h]
JInt(v) == JNum(2 * v)
\* Infinity: what JSON.parse makes of a literal beyond the double range
\* (1e999), and what Number("Infinity") is.
JInfinity == [t |-> "Infinity"]
JNaN == [t |-> "NaN"]
JObj(l, s) == [t |-> "object", link |-> l, size |-> s]

----------------------------------------------------------------------------
(* Strings *)

Run(ch, k) == [c |-> ch, n |-> k]

Str1(ch) == <<Run(ch, 1)>>

RECURSIVE Length(_)
\* s.length
Length(s) == IF s = << >> THEN 0 ELSE Head(s).n + Length(Tail(s))

RECURSIVE Canon(_)
\* The canonical encoding of the string s denotes: no empty run, no two
\* adjacent runs of one character.
Canon(s) ==
    IF s = << >> THEN << >>
    ELSE IF Head(s).n = 0 THEN Canon(Tail(s))
    ELSE LET rest == Canon(Tail(s))
         IN  IF rest # << >> /\ Head(rest).c = Head(s).c
             THEN <<Run(Head(s).c, Head(s).n + Head(rest).n)>> \o Tail(rest)
             ELSE <<Head(s)>> \o rest

Concat(s, t) == Canon(s \o t)

IsSpace(ch) == ch = " "

Digits == <<"0", "1", "2", "3", "4", "5", "6", "7", "8", "9">>

IsDigit(ch) == \E i \in 1..10 : Digits[i] = ch

DigitValue(ch) == (CHOOSE i \in 1..10 : Digits[i] = ch) - 1

RECURSIVE DropWhileSpace(_)
DropWhileSpace(s) ==
    IF s # << >> /\ IsSpace(Head(s).c) THEN DropWhileSpace(Tail(s)) ELSE s

RECURSIVE Reverse(_)
Reverse(s) == IF s = << >> THEN << >> ELSE Reverse(Tail(s)) \o <<Head(s)>>

\* String.prototype.trim(): leading and trailing white space removed.
Trim(s) == Reverse(DropWhileSpace(Reverse(DropWhileSpace(s))))

IsDigitRun(r) == IsDigit(r.c)

\* raw.replace(/\D/g, "")
StripNonDigits(s) == Canon(SelectSeq(s, IsDigitRun))

\* digits.replace(/^0+/, "")
StripLeadingZeros(s) ==
    IF s # << >> /\ Head(s).c = "0" THEN Tail(s) ELSE s

----------------------------------------------------------------------------
(* Numbers of the page *)

\* A JavaScript number that is a non-negative integer, kept exactly up to
\* MAX_SIZE; every larger value (Infinity included: Number("9".repeat(400)))
\* is kept as MAX_SIZE + 1.  clamp() is the only reader of these numbers and
\* maps every value above MAX_SIZE to MAX_SIZE, so nothing it can tell apart
\* is merged.
Saturate(v) == IF v > MAX_SIZE THEN MAX_SIZE + 1 ELSE v

RECURSIVE AppendDigits(_, _, _)
\* The value of the decimal numeral `acc` followed by k copies of digit d.
\* Zeros after 0 leave 0, and digits after a value above MAX_SIZE leave it
\* above MAX_SIZE, so the rest of such a run is skipped.
AppendDigits(acc, d, k) ==
    IF k = 0 \/ acc > MAX_SIZE \/ (acc = 0 /\ d = 0) THEN acc
    ELSE AppendDigits(Saturate(10 * acc + d), d, k - 1)

RECURSIVE DigitsValue(_, _)
DigitsValue(acc, s) ==
    IF s = << >> THEN acc
    ELSE DigitsValue(AppendDigits(acc, DigitValue(Head(s).c), Head(s).n), Tail(s))

\* Number(digits) for a non-empty string of decimal digits; never NaN.
NumberOfDigits(s) == DigitsValue(0, s)

RECURSIVE DecimalString(_)
DecimalString(v) ==
    IF v < 10 THEN Str1(Digits[v + 1])
    ELSE Concat(DecimalString(v \div 10), Str1(Digits[(v % 10) + 1]))

\* String(n) for a non-negative integer n
String(v) == DecimalString(v)

Min(a, b) == IF a < b THEN a ELSE b
Max(a, b) == IF a > b THEN a ELSE b

\* clamp without the upper bound.
clampNoUpperBound(v, lo, hi) == Max(lo, v)

\* page.tsx:16-18
clamp(v, lo, hi) == Min(hi, Max(lo, v))

\* page.tsx:30-51.  The result is Null or JInt(n).  Number(digits) of a
\* string of digits is never NaN, so the return of line 47 is never taken.
parseSizeInput(raw) ==
    LET digits == StripNonDigits(raw)
    IN  IF Length(digits) = 0 THEN Null
        ELSE LET stripped == IF Head(digits).c = "0"
                             THEN StripLeadingZeros(digits) ELSE digits
             IN  IF Length(stripped) = 0 THEN Null
                 ELSE JInt(clamp(NumberOfDigits(stripped), MIN_SIZE, MAX_SIZE))

----------------------------------------------------------------------------
(* bodySchema (route.ts:41-53), as zod 4 evaluates it *)

Issue(p, m, c) == [path |-> p, message |-> m, code |-> c]

TypeName(v) ==
    IF v.t \in {"Infinity", "NaN"} THEN "number" ELSE v.t

\* new URL(s) succeeds (WHATWG URL parser, no base URL).  Over the alphabet
\* of the model ("a" a lower-case letter, ":" and " "), the parser needs a
\* scheme: a run of letters directly followed by ":".  "a" is no special
\* scheme, so whatever follows the colon is an opaque path and is accepted.
UrlParses(s) ==
    /\ Len(s) >= 2
    /\ s[1].c = "a"
    /\ s[2].c = ":"

UrlMessage == "Please provide a valid URL (e.g., https://example.com)"

\* linkSchema without the .url() check: any string passes.
linkSchemaNoUrlCheck(v) ==
    IF v.t # "string"
    THEN [issues |-> <<Issue("link", "Invalid input: expected string, received " \o TypeName(v),
                             "invalid_type")>>,
          value |-> Undefined]
    ELSE [issues |-> << >>, value |-> JStr(Trim(v.s))]

\* route.ts:42-45: z.string().trim().url(msg).
\* [issues, value]: the issues raised and the value handed on.
linkSchema(v) ==
    IF v.t # "string"
    THEN [issues |-> <<Issue("link", "Invalid input: expected string, received " \o TypeName(v),
                             "invalid_type")>>,
          value |-> Undefined]
    ELSE LET trimmed == Trim(v.s)
         IN  IF UrlParses(trimmed)
             THEN [issues |-> << >>, value |-> JStr(trimmed)]
             ELSE [issues |-> <<Issue("link", UrlMessage, "invalid_format")>>,
                   value |-> JStr(trimmed)]

\* Number(s) for a string s over the model's alphabet: "" and white space
\* give 0, a string of digits its value, anything else NaN.
NumberOfString(s) ==
    LET trimmed == Trim(s)
    IN  IF trimmed = << >> THEN JInt(0)
        ELSE IF \A i \in 1..Len(trimmed) : IsDigit(trimmed[i].c)
             THEN JInt(NumberOfDigits(trimmed))
             ELSE JNaN

\* z.coerce.number: Number(input)
CoerceNumber(v) ==
    CASE v.t = "number"   -> v
      [] v.t = "Infinity" -> v
      [] v.t = "NaN"      -> v
      [] v.t = "null"     -> JInt(0)
      [] v.t = "string"   -> NumberOfString(v.s)
      [] OTHER            -> JNaN

\* numberChecks with the two messages exchanged.
numberChecksSwappedMessages(n) ==
    IF n.h % 2 # 0
    THEN <<Issue("size", "Size must be an integer", "invalid_type")>>
    ELSE (IF n.h < 2 * SchemaMin
          THEN <<Issue("size", "Maximum size is " \o ToString(SchemaMax), "too_small")>>
          ELSE << >>)
         \o
         (IF n.h > 2 * SchemaMax
          THEN <<Issue("size", "Minimum size is " \o ToString(SchemaMin), "too_big")>>
          ELSE << >>)

\* numberChecks with the minimum taken as exclusive: 128 itself is refused.
numberChecksMinExclusive(n) ==
    IF n.h % 2 # 0
    THEN <<Issue("size", "Size must be an integer", "invalid_type")>>
    ELSE (IF n.h <= 2 * SchemaMin
          THEN <<Issue("size", "Minimum size is " \o ToString(SchemaMin), "too_small")>>
          ELSE << >>)
         \o
         (IF n.h > 2 * SchemaMax
          THEN <<Issue("size", "Maximum size is " \o ToString(SchemaMax), "too_big")>>
          ELSE << >>)

\* The checks of route.ts:49-51 on a finite number, in order.  zod 4 raises
\* the .int() issue with continue: false, which skips the checks after it.
numberChecks(n) ==
    IF n.h % 2 # 0
    THEN <<Issue("size", "Size must be an integer", "invalid_type")>>
    ELSE (IF n.h < 2 * SchemaMin
          THEN <<Issue("size", "Minimum size is " \o ToString(SchemaMin), "too_small")>>
          ELSE << >>)
         \o
         (IF n.h > 2 * SchemaMax
          THEN <<Issue("size", "Maximum size is " \o ToString(SchemaMax), "too_big")>>
          ELSE << >>)

\* route.ts:47-52: z.coerce.number(msg).int(msg).min(128).max(1024).optional()
sizeSchema(v) ==
    IF v.t = "undefined"
    THEN [issues |-> << >>, value |-> Undefined]
    ELSE LET n == CoerceNumber(v)
         IN  IF n.t # "number"
             THEN [issues |-> <<Issue("size", "Size must be a number", "invalid_type")>>,
                   value |-> Undefined]
             ELSE [issues |-> numberChecks(n), value |-> n]

\* safeParse stopping at the first field that fails: the size is looked at
\* only when the link is valid.
safeParseFailFast(b) ==
    IF b.t # "object"
    THEN [success |-> FALSE,
          issues |-> <<Issue("", "Invalid input: expected object, received " \o TypeName(b),
                             "invalid_type")>>]
    ELSE LET l == linkSchema(b.link)
             s == sizeSchema(b.size)
         IN  IF l.issues # << >> THEN [success |-> FALSE, issues |-> l.issues]
             ELSE IF s.issues # << >> THEN [success |-> FALSE, issues |-> s.issues]
             ELSE [success |-> TRUE, data |-> [link |-> l.value, size |-> s.value]]

\* bodySchema.safeParse(body), route.ts:41-53 and route.ts:70
safeParse(b) ==
    IF b.t # "object"
    THEN [success |-> FALSE,
          issues |-> <<Issue("", "Invalid input: expected object, received " \o TypeName(b),
                             "invalid_type")>>]
    ELSE LET l == linkSchema(b.link)
             s == sizeSchema(b.size)
             all == l.issues \o s.issues
         IN  IF all = << >>
             THEN [success |-> TRUE, data |-> [link |-> l.value, size |-> s.value]]
             ELSE [success |-> FALSE, issues |-> all]

RECURSIVE Messages(_, _)
Messages(issues, p) ==
    IF issues = << >> THEN << >>
    ELSE (IF Head(issues).path = p THEN <<Head(issues).message>> ELSE << >>)
         \o Messages(Tail(issues), p)

\* error.flatten().fieldErrors: the messages of the issues that have a path,
\* keyed by the first path element.
flattenFieldErrors(issues) ==
    LET fields == {issues[i].path : i \in 1..Len(issues)} \ {""}
    IN  [f \in fields |-> Messages(issues, f)]

\* route.ts:14-28
zodErrorToResponse(issues) ==
    [message |-> "Validation error",
     issues |-> issues,
     fieldErrors |-> flattenFieldErrors(issues)]

----------------------------------------------------------------------------
(* QRCode.toDataURL(link, { width, margin: 2, errorCorrectionLevel: "M" }),
   route.ts:87-91, as the qrcode package computes it on the server *)

\* Codewords of a symbol of version 1..40 (qrcode lib/core/utils.js,
\* CODEWORDS_COUNT).
TotalCodewords ==
    <<26, 44, 70, 100, 134, 172, 196, 242, 292, 346,
      404, 466, 532, 581, 655, 733, 815, 901, 991, 1085,
      1156, 1258, 1364, 1474, 1588, 1706, 1828, 1921, 2051, 2185,
      2323, 2465, 2611, 2761, 2876, 3034, 3196, 3362, 3532, 3706>>

\* Error correction codewords at level M (qrcode
\* lib/core/error-correction-code.js, EC_CODEWORDS_TABLE, column M).
EcCodewordsM ==
    <<10, 16, 26, 36, 48, 64, 72, 88, 110, 130,
      150, 176, 198, 216, 240, 280, 308, 338, 364, 416,
      442, 476, 504, 560, 588, 644, 700, 728, 784, 812,
      868, 924, 980, 1036, 1064, 1120, 1204, 1260, 1316, 1372>>

Versions == 1..Len(TotalCodewords)

\* Bits of the character count indicator of a byte segment
\* (lib/core/mode.js, Mode.BYTE.ccBits).
ByteCountBits(v) == IF v < 10 THEN 8 ELSE 16

\* Version.getCapacity(v, M, Mode.BYTE): the bytes a single byte segment
\* can carry, after the 4-bit mode indicator and the count indicator.
ByteCapacity(v) ==
    ((TotalCodewords[v] - EcCodewordsM[v]) * 8 - (4 + ByteCountBits(v))) \div 8

\* Version.getBestVersionForData: the smallest version that holds the
\* data, 0 when none does.  The links of the model are made of lower-case
\* letters with single ":" and " " between them; for such text the
\* segment optimiser of the package settles on one byte segment.
BestVersion(bytes) ==
    IF \E v \in Versions : bytes <= ByteCapacity(v)
    THEN CHOOSE v \in Versions :
            /\ bytes <= ByteCapacity(v)
            /\ \A w \in Versions : bytes <= ByteCapacity(w) => v <= w
    ELSE 0

\* Modules on a side of a symbol of version v (lib/core/utils.js
\* getSymbolSize).
SymbolSize(v) == 4 * v + 17

RECURSIVE Pow2(_)
Pow2(e) == IF e = 0 THEN 1 ELSE 2 * Pow2(e - 1)

RECURSIVE Pow2Mod(_, _)
\* 2^e mod m
Pow2Mod(e, m) == IF e = 0 THEN 1 % m ELSE (2 * Pow2Mod(e - 1, m)) % m

RECURSIVE Log2(_)
\* floor(log2(x)), x >= 1
Log2(x) == IF x < 2 THEN 0 ELSE 1 + Log2(x \div 2)

(* Math.floor(m * (w / m)) in IEEE 754 double arithmetic, for integers
   1 <= m <= w < 2^20 with m odd, computed with small integers.

   Let e = floor(log2(w / m)).  The quotient q = w / m is rounded to 53
   significant bits: q = Q * 2^(e-52) with Q the integer nearest to
   w * 2^(52-e) / m.  With r = (w * 2^(52-e)) mod m (m is odd, so there is
   no tie): if 2r > m the quotient is rounded up, the product m * q lies
   above w by less than half a unit in the last place and rounds to w; if
   2r < m the quotient is rounded down and m * q = w - r * 2^(e-52)
   exactly.  The doubles just below w are u apart, u = 2^(L-52) with
   L = floor(log2(w)), or half of that when w is a power of two.  The
   product rounds to a double below w exactly when r * 2^(e-52) > u / 2
   (a tie goes to w, whose significand is even), and then the floor is
   w - 1. *)
FloorOfProduct(m, w) ==
    LET e == Log2(w \div m)
        r == ((w % m) * Pow2Mod(52 - e, m)) % m
        L == Log2(w)
        halfGap == IF Pow2(L) = w THEN Pow2(L - 1) ELSE Pow2(L)
    IN  IF 2 * r < m /\ r * Pow2(e + 1) > halfGap THEN w - 1 ELSE w

\* Utils.getImageWidth(qrSize, opts) of lib/renderer/utils.js, with opts
\* from getOptions: opts.width is the option when it is at least 21, and
\* opts.scale is 4.
\*   getScale:      width && width >= qrSize + margin * 2
\*                    ? width / (qrSize + margin * 2) : scale
\*   getImageWidth: Math.floor((qrSize + margin * 2) * scale)
getImageWidth(qrSize, width) ==
    LET m == qrSize + Margin * 2
    IN  IF width >= 21 /\ width >= m
        THEN FloorOfProduct(m, width)
        ELSE m * 4

\* QRCode.toDataURL(text, {width, margin, errorCorrectionLevel}): the
\* promise resolves with the data URL of a PNG, or rejects ("The amount of
\* data is too big to be stored in a QR Code") when no version holds the
\* text.  The PNG is kept as what determines it: the text encoded, the
\* symbol's version and the side of the image in pixels.
toDataURL(text, width) ==
    LET v == BestVersion(Length(text))
    IN  IF text = << >> \/ v = 0
        THEN [ok |-> FALSE]
        ELSE LET px == getImageWidth(SymbolSize(v), width)
             IN  [ok |-> TRUE,
                  dataUrl |-> [t |-> "string",
                               prefix |-> "data:image/png;base64,",
                               text |-> text, version |-> v,
                               width |-> px, height |-> px]]

----------------------------------------------------------------------------
(* POST /api/qrcode, route.ts:65-102 *)

Reqs == 1..NumReqs

\* NextResponse.json(json, { status })
Response(st, json) == [status |-> st, json |-> json]

\* route.ts:74
validationResponse(issues) == Response(400, zodErrorToResponse(issues))

\* generationResponse whose catch answers in the shape of a validation
\* error.
generationResponseAs400(data) ==
    LET width == IF data.size.t = "undefined" THEN DefaultWidth
                 ELSE data.size.h \div 2
        r == toDataURL(data.link.s, width)
    IN  IF r.ok
        THEN Response(200, [dataUrl |-> r.dataUrl])
        ELSE Response(400, zodErrorToResponse(<< >>))

\* generationResponse without the try/catch around the await: the failed
\* call's missing result is returned as the dataUrl.
generationResponseUnguarded(data) ==
    LET width == IF data.size.t = "undefined" THEN DefaultWidth
                 ELSE data.size.h \div 2
        r == toDataURL(data.link.s, width)
    IN  IF r.ok
        THEN Response(200, [dataUrl |-> r.dataUrl])
        ELSE Response(200, [dataUrl |-> Null])

\* route.ts:87-101: the try block and its catch
generationResponse(data) ==
    LET width == IF data.size.t = "undefined" THEN DefaultWidth
                 ELSE data.size.h \div 2
        r == toDataURL(data.link.s, width)
    IN  IF r.ok
        THEN Response(200, [dataUrl |-> r.dataUrl])
        ELSE Response(500, [message |-> "Failed to generate QR code"])

\* The whole handler as a function of the request body.
handle(b) ==
    LET p == safeParse(b)
    IN  IF ~p.success THEN validationResponse(p.issues)
        ELSE generationResponse(p.data)

\* What req.json() is given: text that is not JSON, or a JSON value.
Unparseable == [t |-> "unparseable"]

\* Receive without the .catch(() => null): the rejection of req.json()
\* leaves the handler, and the framework answers 500.
ReceiveUncaught(r, req) ==
    /\ pc[r] = "start"
    /\ request' = [request EXCEPT ![r] = req]
    /\ IF req.t = "unparseable"
       THEN /\ responses' = [responses EXCEPT
                               ![r] = Append(@, Response(500, [message |-> "Internal Server Error"]))]
            /\ pc' = [pc EXCEPT ![r] = "done"]
            /\ UNCHANGED body
       ELSE /\ body' = [body EXCEPT ![r] = req]
            /\ pc' = [pc EXCEPT ![r] = "validate"]
            /\ UNCHANGED responses
    /\ UNCHANGED <<parsed, qrCalls>>
    /\ UNCHANGED pageVars

\* route.ts:67: const body = await req.json().catch(() => null)
Receive(r, req) ==
    /\ pc[r] = "start"
    /\ request' = [request EXCEPT ![r] = req]
    /\ body' = [body EXCEPT ![r] = IF req.t = "unparseable" THEN Null ELSE req]
    /\ pc' = [pc EXCEPT ![r] = "validate"]
    /\ UNCHANGED <<parsed, responses, qrCalls>>
    /\ UNCHANGED pageVars

\* route.ts:70-78: safeParse, and the 400 response when it fails
Validate(r) ==
    /\ pc[r] = "validate"
    /\ LET p == safeParse(body[r])
       IN  /\ parsed' = [parsed EXCEPT ![r] = p]
           /\ IF ~p.success
              THEN /\ responses' = [responses EXCEPT
                                      ![r] = Append(@, validationResponse(p.issues))]
                   /\ pc' = [pc EXCEPT ![r] = "done"]
              ELSE /\ pc' = [pc EXCEPT ![r] = "generate"]
                   /\ UNCHANGED responses
    /\ UNCHANGED <<request, body, qrCalls>>
    /\ UNCHANGED pageVars

\* Generate reading the validated data from a variable that the invocations
\* share: the data of the first invocation that waits to generate.
GenerateFromSharedData(r) ==
    /\ pc[r] = "generate"
    /\ qrCalls' = [qrCalls EXCEPT ![r] = @ + 1]
    /\ LET q == CHOOSE q \in Reqs : pc[q] = "generate"
       IN  responses' = [responses EXCEPT
                           ![r] = Append(@, generationResponse(parsed[q].data))]
    /\ pc' = [pc EXCEPT ![r] = "done"]
    /\ UNCHANGED <<request, body, parsed>>
    /\ UNCHANGED pageVars

\* route.ts:80-101: await QRCode.toDataURL(...) and the response
Generate(r) ==
    /\ pc[r] = "generate"
    /\ qrCalls' = [qrCalls EXCEPT ![r] = @ + 1]
    /\ responses' = [responses EXCEPT
                       ![r] = Append(@, generationResponse(parsed[r].data))]
    /\ pc' = [pc EXCEPT ![r] = "done"]
    /\ UNCHANGED <<request, body, parsed>>
    /\ UNCHANGED pageVars

----------------------------------------------------------------------------
(* Page, page.tsx:53-268 *)

\* page.tsx:88
canGenerate == Length(Trim(link)) > 0

\* page.tsx:164: onChange of the URL field
setLink(s) ==
    /\ link' = s
    /\ UNCHANGED <<size, sizeText, dataUrl, loading, error, inflight, outcome>>
    /\ UNCHANGED apiVars

\* page.tsx:181-200: onChange of the size field
sizeOnChange(raw) ==
    /\ IF raw = Str1("0")
       THEN UNCHANGED <<size, sizeText>>
       ELSE LET p == parseSizeInput(raw)
                digitsOnly == StripNonDigits(raw)
                normalizedText == StripLeadingZeros(digitsOnly)
            IN  /\ sizeText' = normalizedText
                /\ size' = IF p.t # "null" THEN p.h \div 2 ELSE size
    /\ UNCHANGED <<link, dataUrl, loading, error, inflight, outcome>>
    /\ UNCHANGED apiVars

\* page.tsx:201-208: onBlur of the size field
sizeOnBlur ==
    /\ LET p == parseSizeInput(sizeText)
           finalValue == IF p.t # "null" THEN p.h \div 2 ELSE FallbackSize
       IN  /\ size' = finalValue
           /\ sizeText' = String(finalValue)
    /\ UNCHANGED <<link, dataUrl, loading, error, inflight, outcome>>
    /\ UNCHANGED apiVars

\* generateStart without setDataUrl(null): the old preview stays.
generateStartKeepsPreview ==
    /\ canGenerate /\ ~loading
    /\ loading' = TRUE
    /\ error' = Null
    /\ inflight' = Append(inflight, JObj(JStr(link), JInt(size)))
    /\ outcome' = "pending"
    /\ UNCHANGED <<link, size, sizeText, dataUrl>>
    /\ UNCHANGED apiVars

\* generateStart behind a button that is disabled only when !canGenerate.
generateStartWhileLoading ==
    /\ canGenerate
    /\ loading' = TRUE
    /\ error' = Null
    /\ dataUrl' = Null
    /\ inflight' = Append(inflight, JObj(JStr(link), JInt(size)))
    /\ outcome' = "pending"
    /\ UNCHANGED <<link, size, sizeText>>
    /\ UNCHANGED apiVars

\* page.tsx:96-106 behind the button of page.tsx:221-227 (disabled when
\* !canGenerate || loading): generate() up to its first await, with the
\* body JSON.stringify({ link, size }) makes.
generateStart ==
    /\ canGenerate /\ ~loading
    /\ loading' = TRUE
    /\ error' = Null
    /\ dataUrl' = Null
    /\ inflight' = Append(inflight, JObj(JStr(link), JInt(size)))
    /\ outcome' = "pending"
    /\ UNCHANGED <<link, size, sizeText>>
    /\ UNCHANGED apiVars

\* page.tsx:115-123: the message of the error thrown for a response that
\* is not ok, from its JSON payload
errorMessage(payload) ==
    IF "fieldErrors" \in DOMAIN payload
       /\ "link" \in DOMAIN payload.fieldErrors
    THEN payload.fieldErrors["link"][1]
    ELSE IF "fieldErrors" \in DOMAIN payload
            /\ "size" \in DOMAIN payload.fieldErrors
    THEN payload.fieldErrors["size"][1]
    ELSE IF "issues" \in DOMAIN payload /\ Len(payload.issues) > 0
    THEN payload.issues[1].message
    ELSE IF "message" \in DOMAIN payload
    THEN payload.message
    ELSE "Failed to generate QR code"

\* The pending fetches without the i-th.
RemoveAt(seq, i) == SubSeq(seq, 1, i - 1) \o SubSeq(seq, i + 1, Len(seq))

\* page.tsx:107-131: a fetch resolved with the handler's response
generateSettle ==
    \E i \in 1..Len(inflight) :
        /\ LET res == handle(inflight[i])
           IN  IF res.status # 200
               THEN /\ error' = JStr(errorMessage(res.json))
                    /\ outcome' = "notOk"
                    /\ UNCHANGED dataUrl
               ELSE /\ dataUrl' = res.json.dataUrl
                    /\ outcome' = "ok"
                    /\ UNCHANGED error
        /\ loading' = FALSE
        /\ inflight' = RemoveAt(inflight, i)
        /\ UNCHANGED <<link, size, sizeText>>
        /\ UNCHANGED apiVars

\* page.tsx:109-123: a fetch resolved with a response that is not ok and
\* has no JSON body (from a proxy, say): payload is {}
generateSettleNotOkNoJson ==
    \E i \in 1..Len(inflight) :
        /\ error' = JStr("Failed to generate QR code")
        /\ loading' = FALSE
        /\ inflight' = RemoveAt(inflight, i)
        /\ outcome' = "notOkNoJson"
        /\ UNCHANGED <<link, size, sizeText, dataUrl>>
        /\ UNCHANGED apiVars

\* page.tsx:109-126: a fetch resolved with a response that is ok and has
\* no JSON body: payload is {} and payload.dataUrl is undefined
generateSettleOkNoJson ==
    \E i \in 1..Len(inflight) :
        /\ dataUrl' = Undefined
        /\ loading' = FALSE
        /\ inflight' = RemoveAt(inflight, i)
        /\ outcome' = "okNoJson"
        /\ UNCHANGED <<link, size, sizeText, error>>
        /\ UNCHANGED apiVars

\* generateSettleRejected without the finally block: `loading` stays true.
generateSettleRejectedNoFinally ==
    \E i \in 1..Len(inflight) :
        /\ error' = JStr("Failed to fetch")
        /\ inflight' = RemoveAt(inflight, i)
        /\ outcome' = "rejected"
        /\ UNCHANGED <<link, size, sizeText, dataUrl, loading>>
        /\ UNCHANGED apiVars

\* page.tsx:127-131: a fetch rejected (no network)
generateSettleRejected ==
    \E i \in 1..Len(inflight) :
        /\ error' = JStr("Failed to fetch")
        /\ loading' = FALSE
        /\ inflight' = RemoveAt(inflight, i)
        /\ outcome' = "rejected"
        /\ UNCHANGED <<link, size, sizeText, dataUrl>>
        /\ UNCHANGED apiVars

\* page.tsx:229-236: the Download button is enabled (disabled={!dataUrl});
\* downloadPng (page.tsx:137-143) returns at once otherwise.
downloadEnabled == dataUrl.t = "string"

----------------------------------------------------------------------------
(* Inputs *)

RECURSIVE StringsOver(_, _)
\* The canonical strings of at most k runs drawn from `runs`.
StringsOver(runs, k) ==
    IF k = 0 THEN {<< >>}
    ELSE LET shorter == StringsOver(runs, k - 1)
         IN  shorter \cup
             {Append(s, r) : <<s, r>> \in
                 {x \in shorter \X runs :
                     \/ x[1] = << >>
                     \/ x[1][Len(x[1])].c # x[2].c}}

\* Links: lower-case letters in runs of 1, 338, 1058 and 2329 (with "a:"
\* in front: 340 bytes need version 14, 1060 bytes version 27, 2331 bytes
\* are the most version 40 holds), single colons and single spaces.
LinkRuns ==
    {Run("a", k) : k \in {1, 338, 1058, 2329}} \cup {Run(":", 1), Run(" ", 1)}

LinkStrings == StringsOver(LinkRuns, MaxRuns)

LinkValues == {Undefined, JInt(5)} \cup {JStr(s) : s \in LinkStrings}

\* Sizes in halves: -5, 0, 3.5, 127, 127.5, 128, 128.5, 201, 256, 320,
\* 1024, 1024.5, 1025, 5000.
SizeHalves == {-10, 0, 7, 254, 255, 256, 257, 402, 512, 640, 2048, 2049, 2050, 10000}

SizeValues ==
    {Undefined, Null, JInfinity, JStr(Str1("p")),
     JStr(<<Run("2", 1), Run("5", 1), Run("6", 1)>>)}
    \cup {JNum(h) : h \in SizeHalves}

Requests ==
    {Unparseable, Null, JInt(5)}
    \cup {JObj(l, s) : l \in LinkValues, s \in SizeValues}

\* The requests of the interleaved invocations.
ConcRequests ==
    {Unparseable}
    \cup {JObj(l, s) :
            l \in {JStr(<<Run("a", 1), Run(":", 1)>>),
                   JStr(<<Run("a", 1), Run(":", 1), Run("a", 2329), Run(":", 1)>>),
                   JStr(<<Run("a", 1), Run(" ", 1), Run("a", 1)>>)},
            s \in {Undefined, JInt(127), JInt(201), JInt(320)}}

\* What the user types into the size field.
TypedRuns ==
    {Run("0", 1), Run("2", 1), Run("5", 2), Run("p", 1), Run("9", 400)}

TypedStrings == StringsOver(TypedRuns, MaxTypedRuns)

\* What the user types into the URL field.
PageLinks ==
    {<< >>, Str1(" "), <<Run("a", 1), Run(":", 1)>>,
     <<Run("a", 1), Run(" ", 1), Run("a", 1)>>}

\* The links and size texts typed while the life of generate() is
\* followed: PageLinks and a link of 2332 bytes, which no symbol holds;
\* nothing, "0", a letter, "255" and four hundred nines.
GenerateLinks ==
    PageLinks \cup {<<Run("a", 1), Run(":", 1), Run("a", 2329), Run(":", 1)>>}

GenerateTyped ==
    {<< >>, Str1("0"), Str1("p"), <<Run("2", 1), Run("5", 2)>>, <<Run("9", 400)>>}

----------------------------------------------------------------------------
(* Specifications *)

Init ==
    /\ pc = [r \in Reqs |-> "start"]
    /\ request = [r \in Reqs |-> Undefined]
    /\ body = [r \in Reqs |-> Undefined]
    /\ parsed = [r \in Reqs |-> Undefined]
    /\ responses = [r \in Reqs |-> << >>]
    /\ qrCalls = [r \in Reqs |-> 0]
    /\ link = << >>
    /\ size = InitialSize
    /\ sizeText = String(InitialSize)
    /\ dataUrl = Null
    /\ loading = FALSE
    /\ error = Null
    /\ inflight = << >>
    /\ outcome = "none"

\* One invocation of the handler, on every request of the model.
NextApi ==
    \/ \E req \in Requests : Receive(1, req)
    \/ Validate(1)
    \/ Generate(1)

SpecApi == Init /\ [][NextApi]_vars

\* NumReqs invocations, interleaved at the handler's awaits.
NextConc ==
    \/ \E r \in Reqs, req \in ConcRequests : Receive(r, req)
    \/ \E r \in Reqs : Validate(r)
    \/ \E r \in Reqs : Generate(r)

SpecConc == Init /\ [][NextConc]_vars

\* The page, with the handler answering its requests.
NextPage ==
    \/ \E s \in PageLinks : setLink(s)
    \/ \E raw \in TypedStrings : sizeOnChange(raw)
    \/ sizeOnBlur
    \/ generateStart
    \/ generateSettle
    \/ generateSettleNotOkNoJson
    \/ generateSettleOkNoJson
    \/ generateSettleRejected

SpecPage == Init /\ [][NextPage]_vars

\* A fetch of generate() that is pending settles.
Settle ==
    \/ generateSettleRejected
    \/ generateSettleNotOkNoJson
    \/ generateSettleOkNoJson
    \/ generateSettle

\* The page over the life of generate().
NextGenerate ==
    \/ \E s \in GenerateLinks : setLink(s)
    \/ \E raw \in GenerateTyped : sizeOnChange(raw)
    \/ sizeOnBlur
    \/ generateStart
    \/ Settle

SpecGenerate == Init /\ [][NextGenerate]_vars

\* The same, with every pending fetch settling in the end: the browser
\* resolves or rejects the promise of fetch().
SpecGenerateFair == SpecGenerate /\ WF_vars(Settle)

----------------------------------------------------------------------------
(* Vocabulary of the properties *)

Done(r) == pc[r] = "done"

\* The request is an object whose link is a string.
HasStringLink(r) ==
    /\ body[r].t = "object"
    /\ body[r].link.t = "string"

\* The link is a non-empty well-formed absolute URL once trimmed.
WellFormedLink(r) ==
    /\ HasStringLink(r)
    /\ UrlParses(Trim(body[r].link.s))

\* The link is a string that is empty, white space, or no absolute URL.
MalformedLink(r) ==
    /\ HasStringLink(r)
    /\ ~UrlParses(Trim(body[r].link.s))

LinkBytes(r) == Length(Trim(body[r].link.s))

SizeOmitted(r) ==
    /\ body[r].t = "object"
    /\ body[r].size.t = "undefined"

\* The size is an integer of [128, 1024].
SizeInRange(r) ==
    /\ body[r].t = "object"
    /\ body[r].size.t = "number"
    /\ body[r].size.h % 2 = 0
    /\ body[r].size.h >= 2 * 128
    /\ body[r].size.h <= 2 * 1024

RequestedSize(r) == body[r].size.h \div 2

\* The size is a number below 128.
SizeBelow(r) ==
    /\ body[r].t = "object"
    /\ body[r].size.t = "number"
    /\ body[r].size.h < 2 * 128

\* The size is a number above 1024 (1e999, which JSON.parse reads as
\* Infinity, included).
SizeAbove(r) ==
    /\ body[r].t = "object"
    /\ \/ body[r].size.t = "number" /\ body[r].size.h > 2 * 1024
       \/ body[r].size.t = "Infinity"

SizeIsInteger(r) ==
    /\ body[r].size.t = "number"
    /\ body[r].size.h % 2 = 0

Contains(seq, x) == \E i \in 1..Len(seq) : seq[i] = x

IsSuccess(resp) ==
    /\ resp.status = 200
    /\ DOMAIN resp.json = {"dataUrl"}
    /\ resp.json.dataUrl.t # "null"

IsValidationError(resp) ==
    /\ resp.status = 400
    /\ DOMAIN resp.json = {"message", "issues", "fieldErrors"}
    /\ resp.json.message = "Validation error"

IsGenerationFailure(resp) ==
    /\ resp.status = 500
    /\ resp.json = [message |-> "Failed to generate QR code"]

FieldError(resp, f) ==
    /\ f \in DOMAIN resp.json.fieldErrors
    /\ Len(resp.json.fieldErrors[f]) > 0

----------------------------------------------------------------------------
(* Properties of POST /api/qrcode, checked under SpecApi *)

C2_ImageIsRequestedSize ==
    \A r \in Reqs :
        (Done(r) /\ SizeInRange(r) /\ responses[r][1].status = 200) =>
            /\ responses[r][1].json.dataUrl.width = RequestedSize(r)
            /\ responses[r][1].json.dataUrl.height = RequestedSize(r)

\* C3: a request whose link is malformed (empty, white space only, or not
\* an absolute URL) is answered with the 400 validation error whose
\* fieldErrors.link is non-empty, and QRCode.toDataURL is never called for
\* it.
C3_MalformedLinkRejected ==
    \A r \in Reqs :
        MalformedLink(r) =>
            /\ qrCalls[r] = 0
            /\ pc[r] # "generate"
            /\ Done(r) =>
                  /\ Len(responses[r]) = 1
                  /\ IsValidationError(responses[r][1])
                  /\ FieldError(responses[r][1], "link")

\* A request whose link is "a a" (no scheme) and whose size is valid has
\* been answered.
C3_Witness ==
    \E r \in Reqs :
        /\ Done(r) /\ MalformedLink(r) /\ SizeInRange(r)
        /\ LinkBytes(r) = 3
        /\ responses[r][1].status = 400

C5_OmittedSizeGives320 ==
    \A r \in Reqs :
        (Done(r) /\ SizeOmitted(r)) =>
            /\ responses[r][1].status = 400 =>
                  "size" \notin DOMAIN responses[r][1].json.fieldErrors
            /\ (WellFormedLink(r) /\ responses[r][1].status = 200) =>
                  /\ responses[r][1].json.dataUrl.width = 320
                  /\ responses[r][1].json.dataUrl.height = 320

\* The link of the request is no string or is malformed.
InvalidLink(r) ==
    /\ body[r].t = "object"
    /\ \/ body[r].link.t # "string"
       \/ MalformedLink(r)

\* The size of the request is provided and is no integer of [128, 1024]:
\* a number outside the range or with a fraction, or Infinity.
InvalidSize(r) ==
    /\ body[r].t = "object"
    /\ \/ SizeBelow(r)
       \/ SizeAbove(r)
       \/ body[r].size.t = "number" /\ body[r].size.h % 2 # 0

\* C6: a request with an invalid link and an invalid size gets one 400
\* response whose fieldErrors has a non-empty entry for link and one for
\* size, and whose issues hold an issue of each path.
C6_AllViolationsCollected ==
    \A r \in Reqs :
        (Done(r) /\ InvalidLink(r) /\ InvalidSize(r)) =>
            /\ Len(responses[r]) = 1
            /\ IsValidationError(responses[r][1])
            /\ FieldError(responses[r][1], "link")
            /\ FieldError(responses[r][1], "size")
            /\ \E i \in 1..Len(responses[r][1].json.issues) :
                  responses[r][1].json.issues[i].path = "link"
            /\ \E i \in 1..Len(responses[r][1].json.issues) :
                  responses[r][1].json.issues[i].path = "size"

\* A request with the malformed link "a a" and the size 5000 has been
\* answered.
C6_Witness ==
    \E r \in Reqs :
        /\ Done(r) /\ MalformedLink(r) /\ LinkBytes(r) = 3
        /\ SizeAbove(r) /\ body[r].size.t = "number"
        /\ body[r].size.h = 2 * 5000
        /\ responses[r][1].status = 400

\* The call of QRCode.toDataURL for the validated request r fails.
GenerationFails(r) ==
    ~toDataURL(parsed[r].data.link.s,
               IF parsed[r].data.size.t = "undefined" THEN 320
               ELSE parsed[r].data.size.h \div 2).ok

\* C7: a failure of the generation of a validated request is answered with
\* status 500 and the body { message: "Failed to generate QR code" } and
\* nothing else; a validation failure is answered with status 400 and the
\* message "Validation error"; neither answer is given in the other case.
C7_FailureCategoriesDistinct ==
    \A r \in Reqs :
        Done(r) =>
            /\ Len(responses[r]) = 1
            /\ ~parsed[r].success =>
                  /\ IsValidationError(responses[r][1])
                  /\ qrCalls[r] = 0
            /\ parsed[r].success =>
                  /\ qrCalls[r] = 1
                  /\ responses[r][1].status # 400
                  /\ GenerationFails(r) =>
                        responses[r][1] =
                            [status |-> 500,
                             json |-> [message |-> "Failed to generate QR code"]]
                  /\ ~GenerationFails(r) => responses[r][1].status = 200

\* A validated request whose link of more than 2331 bytes no symbol holds
\* has been answered with 500.
C7_Witness ==
    \E r \in Reqs :
        /\ Done(r) /\ WellFormedLink(r) /\ LinkBytes(r) > 2331
        /\ parsed[r].success
        /\ responses[r][1].status = 500

\* C8: an invocation returns at most one response, exactly one once it has
\* ended, of one of three shapes: success { dataUrl }, validation error
\* (400) or generation failure (500); a dataUrl never comes with a message,
\* nor after a failed validation or a failed generation.
C8_OneResponseOfThreeShapes ==
    \A r \in Reqs :
        /\ Len(responses[r]) <= 1
        /\ Done(r) <=> Len(responses[r]) = 1
        /\ Done(r) =>
              LET resp == responses[r][1]
              IN  /\ \/ IsSuccess(resp)
                     \/ IsValidationError(resp)
                     \/ IsGenerationFailure(resp)
                  /\ "dataUrl" \in DOMAIN resp.json =>
                        /\ "message" \notin DOMAIN resp.json
                        /\ resp.json.dataUrl.t = "string"
                        /\ parsed[r].success
                        /\ ~GenerationFails(r)

\* Both failures have been seen: an invocation has ended with 500.
C8_Witness ==
    \E r \in Reqs :
        /\ Done(r)
        /\ parsed[r].success
        /\ GenerationFails(r)
        /\ Len(responses[r]) = 1

\* The request is text that is no JSON, or JSON that is no object.
NotAnObject(r) ==
    /\ pc[r] # "start"
    /\ request[r].t # "object"

\* C11: a request whose body cannot be parsed as JSON, or is no object, is
\* validated as it stands (as null when it cannot be parsed) and answered
\* with the 400 validation error, whose issues are not empty; it never
\* reaches QRCode.toDataURL and is never answered with 500.
C11_UnparseableBodyRejected ==
    \A r \in Reqs :
        NotAnObject(r) =>
            /\ request[r].t = "unparseable" => body[r] = Null
            /\ qrCalls[r] = 0
            /\ pc[r] # "generate"
            /\ Done(r) =>
                  /\ Len(responses[r]) = 1
                  /\ IsValidationError(responses[r][1])
                  /\ Len(responses[r][1].json.issues) > 0

\* A request that is no JSON has been answered.
C11_Witness ==
    \E r \in Reqs :
        /\ Done(r)
        /\ request[r].t = "unparseable"
        /\ responses[r][1].status = 400

----------------------------------------------------------------------------
(* Property of interleaved invocations, checked under SpecConc *)

\* C9: whatever the interleaving, the response of an invocation is a
\* function of its own request body: it is what the handler computes from
\* that body alone, and two invocations with identical bodies have
\* identical responses.
C9_ResponseDependsOnOwnBody ==
    /\ \A r \in Reqs : Done(r) => responses[r] = <<handle(body[r])>>
    /\ \A r1, r2 \in Reqs :
          (Done(r1) /\ Done(r2) /\ body[r1] = body[r2]) =>
              responses[r1] = responses[r2]

\* Two invocations with identical bodies have both ended with a success.
C9_Witness ==
    \E r1, r2 \in Reqs :
        /\ r1 # r2
        /\ Done(r1) /\ Done(r2)
        /\ body[r1] = body[r2]
        /\ responses[r1][1].status = 200
        /\ responses[r2][1].status = 200

----------------------------------------------------------------------------
(* Properties of the page, checked under SpecPage *)

\* C10: after any sequence of change and blur events of the size field,
\* `size` is an integer of [128, 1024], and every request the page sends
\* carries a size that the size validation of the handler accepts.
C10_SizeStateInRange ==
    /\ size \in 128..1024
    /\ \A i \in 1..Len(inflight) :
          /\ inflight[i].size.t = "number"
          /\ inflight[i].size.h % 2 = 0
          /\ inflight[i].size.h \div 2 \in 128..1024
          /\ sizeSchema(inflight[i].size).issues = << >>

\* A request is in flight after the user typed four hundred nines.
C10_Witness ==
    /\ Len(inflight) = 1
    /\ sizeText = <<Run("9", 400)>>
    /\ size = 1024
    /\ inflight[1].size = JInt(1024)

----------------------------------------------------------------------------
(* Properties of generate(), checked under SpecGenerate *)

\* C12: at most one request of generate() is in flight at any time;
\* `loading` is true exactly while one is; and Generate can be started only
\* when `loading` is false and the trimmed link is not empty.
C12_AtMostOneInFlight ==
    /\ Len(inflight) <= 1
    /\ loading <=> Len(inflight) = 1
    /\ ENABLED generateStart => (~loading /\ Length(Trim(link)) > 0)

\* A request is pending while the URL field holds another non-empty link:
\* only `loading` keeps the button disabled.
C12_Witness ==
    /\ Len(inflight) = 1
    /\ loading
    /\ Length(Trim(link)) > 0
    /\ inflight[1].link # JStr(link)

\* C13: dataUrl and error are never both non-null: while a request is
\* pending both are null, a successful response sets only dataUrl, a failed
\* response or a rejected fetch sets only error; Download is enabled only
\* when the latest request has succeeded and its preview is shown.
C13_PreviewAndErrorExclusive ==
    /\ ~(dataUrl.t # "null" /\ error.t # "null")
    /\ outcome = "pending" => (dataUrl = Null /\ error = Null)
    /\ outcome = "ok" => (dataUrl.t = "string" /\ error = Null)
    /\ outcome \in {"notOk", "notOkNoJson", "rejected"} =>
          (error.t = "string" /\ dataUrl = Null)
    /\ downloadEnabled =>
          /\ outcome = "ok"
          /\ ~loading
          /\ dataUrl.prefix = "data:image/png;base64,"

\* The handler has answered the latest request with an error, which is
\* shown with no preview beside it.
C13_Witness ==
    /\ outcome = "notOk"
    /\ error.t = "string"
    /\ dataUrl = Null
    /\ ~downloadEnabled

----------------------------------------------------------------------------
(* Property of generate(), checked under SpecGenerateFair *)

\* C14: every generate() resets `loading` to false once its request has
\* settled, whatever the outcome, so that loading never stays true for ever;
\* and when the outcome is a response that is not ok or a rejected fetch,
\* `error` is not null then.
C14_LoadingIsReset ==
    /\ [](outcome \notin {"none", "pending"} => ~loading)
    /\ [](outcome \in {"notOk", "notOkNoJson", "rejected"} => error.t = "string")
    /\ (loading ~> ~loading)

\* A fetch has been rejected: loading is false again and the error is set.
C14_Witness ==
    /\ outcome = "rejected"
    /\ ~loading
    /\ error = JStr("Failed to fetch")

====
